---- MODULE Spec2Model ----
(***************************************************************************)
(* Model of queryset_iterator and queryset_iterator_qs                     *)
(* (src/queryset_iterator/core.py): a generator that pages a query result  *)
(* set in batches of primary keys.  One behaviour is one call of one of    *)
(* the two functions together with its consumer; the generator is          *)
(* modelled with its control position (pc), the consumer with the three    *)
(* things it can do to a generator: demand the next element, close it, or  *)
(* iterate a handle it was given.                                          *)
(***************************************************************************)
EXTENDS Integers, Sequences, FiniteSets, Bags, TLC

\* ---- bounds of the model ------------------------------------------------
MaxKeys  == 4      \* longest key sequence of a source
MaxBatch == 3      \* largest batch size tried
MaxRows  == 2      \* most rows the lookup returns for one primary key

\* ---- program constants ---------------------------------------------------
GC_COLLECT_BATCH == 1
GC_COLLECT_END   == 2

VARIABLES
    fn,              \* which of the two functions was called
    iterator_return, \* parameter of queryset_iterator
    batchsize,       \* parameter; its integer part when it is not an integer
    fraction,        \* 0, or 1 when the value passed is batchsize + 1/2
    gc_collect,      \* parameter
    keys,            \* what values_list('pk').distinct().iterator() produces
    rows,            \* rows[k]: how many rows filter(pk__in=..) has for key k
    has_next,        \* the key iterator has a next() besides its __next__()
    pc,              \* control position of the generator
    opened,          \* the key iterator has been acquired
    pos,             \* number of keys drawn from the key iterator
    pk_buffer,       \* local pk_buffer
    pending,         \* what the try statement does once finally is over
    results,         \* rest of the record iterator of the current batch
    lookups,         \* history: pk__in argument of every filter() call
    yielded,         \* history: elements handed to the consumer
    gc_calls,        \* history: number of gc.collect() calls
    error,           \* exception raised in the generator, or "None"
    fetched,         \* history: records drawn from record iterators
    consumed,        \* history: records the consumer drew from handles
    unread           \* the consumer has not iterated the last handle

vars == <<fn, iterator_return, batchsize, fraction, gc_collect, keys, rows,
          has_next, pc, opened, pos, pk_buffer, pending, results, lookups, yielded, gc_calls,
          error, fetched, consumed, unread>>

params == <<fn, iterator_return, batchsize, fraction, gc_collect, keys, rows,
            has_next>>

\* ---- inputs ---------------------------------------------------------------
Ascending(n)  == [i \in 1..n |-> i]
Descending(n) == [i \in 1..n |-> n + 1 - i]

\* Key sequences: finite and duplicate-free, in table order or against it.
KeySeqs == {Ascending(n) : n \in 0..MaxKeys} \cup {Descending(n) : n \in 0..MaxKeys}

BatchSizes == {0 - 1} \cup (0..MaxBatch)

\* Integer parts of the non-integral batch sizes tried: 0.5 and 1.5.
FractionalSizes == 0..1

\* Rows per key of a source with n keys: one row for every key, except that
\* one key may have none (deleted meanwhile) or several (a join), or every
\* key has the same number of rows.
RowCounts(n) ==
    {[k \in 1..n |-> IF k = d THEN r ELSE 1] : d \in 1..n, r \in 0..MaxRows}
        \cup {[k \in 1..n |-> r] : r \in 0..MaxRows}

GcPolicies == {0, GC_COLLECT_BATCH, GC_COLLECT_END}

Functions == {"queryset_iterator", "queryset_iterator_qs"}

\* ---- helpers translated from the code -------------------------------------
\* iterator_return selects between yielding records and yielding the handle;
\* queryset_iterator_qs always yields the handle.
ModeOf(f) == IF f = "queryset_iterator" /\ iterator_return THEN "RECORDS" ELSE "BATCHES"
Mode == ModeOf(fn)

\* The comparisons with batchsize, in halves so that b + 1/2 can be compared.
\* if batchsize < 1: raise ValueError
BatchInvalidLeqZeroOnly(b) == 2 * b + fraction < 0
BatchInvalid(b) == 2 * b + fraction < 2

\* if not isinstance(batchsize, int): raise TypeError
\* The check is commented out in queryset_iterator.
ChecksType(f) == f = "queryset_iterator_qs"
IsInt == fraction = 0

\* while len(pk_buffer) < batchsize
BufferOpenOneMore(buf, b) == 2 * Len(buf) < 2 * (b + 1) + fraction
BufferOpen(buf, b) == 2 * Len(buf) < 2 * b + fraction

\* iterator.next() in queryset_iterator, iterator.__next__() in
\* queryset_iterator_qs; every iterator has __next__.
DrawMethod(f) == IF f = "queryset_iterator" THEN "next" ELSE "__next__"
HasMethod(m) == m = "__next__" \/ has_next

\* try / except StopIteration: break / finally: every way out of the try
\* block goes through the finally block.
TryExitSkipsFinallyOnBreak(signal) == IF signal = "break" THEN "after" ELSE "finally"
TryExit(signal) == "finally"

\* The rows of the table, in table order (ascending primary key).
RECURSIVE RowsOf(_, _)
RowsOf(k, j) == IF j = 0 THEN <<>> ELSE Append(RowsOf(k, j - 1), <<k, j>>)

RECURSIVE Table(_)
Table(n) == IF n = 0 THEN <<>> ELSE Table(n - 1) \o RowsOf(n, rows[n])

InBuffer(buf) == {buf[i] : i \in 1..Len(buf)}

\* queryset.filter(pk__in=pk_buffer): the rows whose pk is in the buffer, in
\* table order.
IsInBuffer(r, buf) == r[1] \in InBuffer(buf)
Filter(buf) ==
    LET Keep(r) == IsInBuffer(r, buf)
    IN  SelectSeq(Table(Len(keys)), Keep)

\* if gc_collect == GC_COLLECT_BATCH and pk_buffer
GcBatchDueUnguarded(policy, buf) == policy = GC_COLLECT_BATCH
GcBatchDueFullOnly(policy, buf) == policy = GC_COLLECT_BATCH /\ Len(buf) = batchsize
GcBatchDueAnyPolicy(policy, buf) == policy >= GC_COLLECT_BATCH /\ buf # <<>>
GcBatchDue(policy, buf) == policy = GC_COLLECT_BATCH /\ buf # <<>>

\* if gc_collect == GC_COLLECT_END
GcEndDueNotBatch(policy) == policy # GC_COLLECT_BATCH
GcEndDue(policy) == policy = GC_COLLECT_END

\* The handle yielded in BATCHES mode: the unevaluated filter() queryset.
Handle(buf) == [pk__in |-> buf]

\* ---- initial state: the generator object just after the call --------------
Init ==
    /\ fn \in Functions
    /\ iterator_return \in BOOLEAN
    /\ fn = "queryset_iterator_qs" => iterator_return = FALSE
    /\ batchsize \in BatchSizes
    /\ fraction \in 0..1
    /\ fraction = 1 => batchsize \in FractionalSizes
    /\ gc_collect \in GcPolicies
    /\ keys \in KeySeqs
    /\ rows \in RowCounts(Len(keys))
    /\ has_next \in BOOLEAN
    /\ pc = "created"
    /\ opened = FALSE
    /\ pos = 0
    /\ pk_buffer = <<>>
    /\ pending = "none"
    /\ results = <<>>
    /\ lookups = <<>>
    /\ yielded = <<>>
    /\ gc_calls = 0
    /\ error = "None"
    /\ fetched = 0
    /\ consumed = 0
    /\ unread = FALSE

\* ---- the consumer ----------------------------------------------------------
\* next(generator): start the body, or resume it after the yield it is
\* suspended at.
DemandAs(f) ==
    /\ pc \in {"created", "suspended"}
    /\ pc' = IF pc = "created" THEN "start"
             ELSE IF ModeOf(f) = "RECORDS" THEN "for" ELSE "gc"
    /\ unread' = FALSE
    /\ UNCHANGED <<params, opened, pos, pk_buffer, pending, results, lookups,
                   yielded, gc_calls, error, fetched, consumed>>

Demand == DemandAs(fn)

\* generator.close(), or the generator being dropped: GeneratorExit is raised
\* at the yield, which is inside the finally block, so the rest of that block
\* is not run.
CloseCollects ==
    /\ pc \in {"created", "suspended"}
    /\ pc' = "closed"
    /\ results' = <<>>
    /\ unread' = FALSE
    /\ gc_calls' = IF pc = "suspended" /\ GcBatchDue(gc_collect, pk_buffer)
                     THEN gc_calls + 1 ELSE gc_calls
    /\ UNCHANGED <<params, opened, pos, pk_buffer, pending, lookups, yielded,
                   error, fetched, consumed>>

Close ==
    /\ pc \in {"created", "suspended"}
    /\ pc' = "closed"
    /\ results' = <<>>
    /\ unread' = FALSE
    /\ UNCHANGED <<params, opened, pos, pk_buffer, pending, lookups, yielded,
                   gc_calls, error, fetched, consumed>>

\* The consumer iterates the handle it was just given.
IterateHandleAs(f) ==
    /\ pc = "suspended"
    /\ ModeOf(f) = "BATCHES"
    /\ unread
    /\ LET n == Len(Filter(yielded[Len(yielded)].pk__in))
       IN  /\ fetched' = fetched + n
           /\ consumed' = consumed + n
    /\ unread' = FALSE
    /\ UNCHANGED <<params, pc, opened, pos, pk_buffer, pending, results,
                   lookups, yielded, gc_calls, error>>

IterateHandle == IterateHandleAs(fn)

\* ---- the generator body ----------------------------------------------------
ValidateAs(f) ==
    /\ pc = "start"
    /\ IF BatchInvalid(batchsize)
         THEN pc' = "raised" /\ error' = "ValueError"
         ELSE IF ChecksType(f) /\ ~IsInt
                THEN pc' = "raised" /\ error' = "TypeError"
                ELSE pc' = "open" /\ error' = error
    /\ UNCHANGED <<params, opened, pos, pk_buffer, pending, results, lookups,
                   yielded, gc_calls, fetched, consumed, unread>>

Validate == ValidateAs(fn)

\* iterator = queryset.values_list('pk', flat=True).distinct().iterator()
OpenKeys ==
    /\ pc = "open"
    /\ opened' = TRUE
    /\ pc' = "loop"
    /\ UNCHANGED <<params, pos, pk_buffer, pending, results, lookups, yielded,
                   gc_calls, error, fetched, consumed, unread>>

\* while True: pk_buffer = []
NewBatchKeepsBuffer ==
    /\ pc = "loop"
    /\ pk_buffer' = pk_buffer
    /\ pending' = "none"
    /\ pc' = "fill"
    /\ UNCHANGED <<params, opened, pos, results, lookups, yielded, gc_calls,
                   error, fetched, consumed, unread>>

NewBatch ==
    /\ pc = "loop"
    /\ pk_buffer' = <<>>
    /\ pending' = "none"
    /\ pc' = "fill"
    /\ UNCHANGED <<params, opened, pos, results, lookups, yielded, gc_calls,
                   error, fetched, consumed, unread>>

\* pk_buffer.append(iterator.next()), the iterator has a key left
DrawKeyPrepends(f) ==
    /\ pc = "fill"
    /\ BufferOpen(pk_buffer, batchsize)
    /\ HasMethod(DrawMethod(f))
    /\ pos < Len(keys)
    /\ pk_buffer' = <<keys[pos + 1]>> \o pk_buffer
    /\ pos' = pos + 1
    /\ UNCHANGED <<params, pc, opened, pending, results, lookups, yielded,
                   gc_calls, error, fetched, consumed, unread>>

DrawKeyAs(f) ==
    /\ pc = "fill"
    /\ BufferOpen(pk_buffer, batchsize)
    /\ HasMethod(DrawMethod(f))
    /\ pos < Len(keys)
    /\ pk_buffer' = Append(pk_buffer, keys[pos + 1])
    /\ pos' = pos + 1
    /\ UNCHANGED <<params, pc, opened, pending, results, lookups, yielded,
                   gc_calls, error, fetched, consumed, unread>>

DrawKey == DrawKeyAs(fn)

\* iterator.next() raises StopIteration: except StopIteration: break
KeysExhaustedAs(f) ==
    /\ pc = "fill"
    /\ BufferOpen(pk_buffer, batchsize)
    /\ HasMethod(DrawMethod(f))
    /\ pos = Len(keys)
    /\ pending' = "break"
    /\ pc' = TryExit("break")
    /\ UNCHANGED <<params, opened, pos, pk_buffer, results, lookups, yielded,
                   gc_calls, error, fetched, consumed, unread>>

KeysExhausted == KeysExhaustedAs(fn)

\* iterator.next() raises an error of the data source: no except clause
\* matches, the error is re-raised when the finally block is over.
DrawFailsAs(f) ==
    /\ pc = "fill"
    /\ BufferOpen(pk_buffer, batchsize)
    /\ HasMethod(DrawMethod(f))
    /\ pending' = "raise"
    /\ error' = "KeysError"
    /\ pc' = TryExit("raise")
    /\ UNCHANGED <<params, opened, pos, pk_buffer, results, lookups, yielded,
                   gc_calls, fetched, consumed, unread>>

DrawFails == DrawFailsAs(fn)

\* the key iterator has no method of the name the function calls: the
\* attribute lookup raises AttributeError inside the try block.
DrawUnsupportedAs(f) ==
    /\ pc = "fill"
    /\ BufferOpen(pk_buffer, batchsize)
    /\ ~HasMethod(DrawMethod(f))
    /\ pending' = "raise"
    /\ error' = "AttributeError"
    /\ pc' = TryExit("raise")
    /\ UNCHANGED <<params, opened, pos, pk_buffer, results, lookups, yielded,
                   gc_calls, fetched, consumed, unread>>

DrawUnsupported == DrawUnsupportedAs(fn)

\* the inner while loop ends because the buffer holds batchsize keys
BatchFullBreaks ==
    /\ pc = "fill"
    /\ ~BufferOpen(pk_buffer, batchsize)
    /\ pending' = "break"
    /\ pc' = TryExit("break")
    /\ UNCHANGED <<params, opened, pos, pk_buffer, results, lookups,
                   yielded, gc_calls, error, fetched, consumed, unread>>

BatchFull ==
    /\ pc = "fill"
    /\ ~BufferOpen(pk_buffer, batchsize)
    /\ pc' = TryExit("none")
    /\ UNCHANGED <<params, opened, pos, pk_buffer, pending, results, lookups,
                   yielded, gc_calls, error, fetched, consumed, unread>>

\* finally: if iterator_return: queryset.filter(pk__in=pk_buffer).iterator()
LookupRecordsAs(f) ==
    /\ pc = "finally"
    /\ ModeOf(f) = "RECORDS"
    /\ lookups' = Append(lookups, pk_buffer)
    /\ results' = Filter(pk_buffer)
    /\ pc' = "for"
    /\ UNCHANGED <<params, opened, pos, pk_buffer, pending, yielded, gc_calls,
                   error, fetched, consumed, unread>>

LookupRecords == LookupRecordsAs(fn)

\* for result in ...: yield result
YieldRecordFromEnd ==
    /\ pc = "for"
    /\ results # <<>>
    /\ yielded' = Append(yielded, results[Len(results)])
    /\ results' = SubSeq(results, 1, Len(results) - 1)
    /\ fetched' = fetched + 1
    /\ pc' = "suspended"
    /\ UNCHANGED <<params, opened, pos, pk_buffer, pending, lookups, gc_calls,
                   error, consumed, unread>>

YieldRecord ==
    /\ pc = "for"
    /\ results # <<>>
    /\ yielded' = Append(yielded, Head(results))
    /\ results' = Tail(results)
    /\ fetched' = fetched + 1
    /\ pc' = "suspended"
    /\ UNCHANGED <<params, opened, pos, pk_buffer, pending, lookups, gc_calls,
                   error, consumed, unread>>

\* the for loop ends
RecordsExhausted ==
    /\ pc = "for"
    /\ results = <<>>
    /\ pc' = "gc"
    /\ UNCHANGED <<params, opened, pos, pk_buffer, pending, results, lookups,
                   yielded, gc_calls, error, fetched, consumed, unread>>

\* filter() or the record iterator raises: the error leaves the finally
\* block at once and replaces whatever was pending.
LookupFailsContinues ==
    /\ \/ pc = "finally"
       \/ pc = "for" /\ results # <<>>
    /\ IF pc = "finally" THEN lookups' = Append(lookups, pk_buffer)
                         ELSE lookups' = lookups
    /\ results' = <<>>
    /\ error' = "LookupError"
    /\ pending' = "none"
    /\ pc' = "loop"
    /\ UNCHANGED <<params, opened, pos, pk_buffer, yielded, gc_calls,
                   fetched, consumed, unread>>

LookupFails ==
    /\ \/ pc = "finally"
       \/ pc = "for" /\ results # <<>>
    /\ IF pc = "finally" THEN lookups' = Append(lookups, pk_buffer)
                         ELSE lookups' = lookups
    /\ results' = <<>>
    /\ error' = "LookupError"
    /\ pc' = "raised"
    /\ UNCHANGED <<params, opened, pos, pk_buffer, pending, yielded, gc_calls,
                   fetched, consumed, unread>>

\* finally: else: yield queryset.filter(pk__in=pk_buffer)
YieldHandleEager(f) ==
    /\ pc = "finally"
    /\ ModeOf(f) = "BATCHES"
    /\ lookups' = Append(lookups, pk_buffer)
    /\ yielded' = Append(yielded, Handle(pk_buffer))
    /\ fetched' = fetched + Len(Filter(pk_buffer))
    /\ unread' = TRUE
    /\ pc' = "suspended"
    /\ UNCHANGED <<params, opened, pos, pk_buffer, pending, results, gc_calls,
                   error, consumed>>

YieldHandleAs(f) ==
    /\ pc = "finally"
    /\ ModeOf(f) = "BATCHES"
    /\ lookups' = Append(lookups, pk_buffer)
    /\ yielded' = Append(yielded, Handle(pk_buffer))
    /\ unread' = TRUE
    /\ pc' = "suspended"
    /\ UNCHANGED <<params, opened, pos, pk_buffer, pending, results, gc_calls,
                   error, fetched, consumed>>

YieldHandle == YieldHandleAs(fn)

\* if gc_collect == GC_COLLECT_BATCH and pk_buffer: gc.collect()
\* and then the end of the finally block: go round the loop, break out of
\* it, or re-raise the pending error.
CollectBatch ==
    /\ pc = "gc"
    /\ gc_calls' = IF GcBatchDue(gc_collect, pk_buffer) THEN gc_calls + 1 ELSE gc_calls
    /\ pc' = CASE pending = "none"  -> "loop"
               [] pending = "break" -> "after"
               [] pending = "raise" -> "raised"
    /\ UNCHANGED <<params, opened, pos, pk_buffer, pending, results, lookups,
                   yielded, error, fetched, consumed, unread>>

\* after the loop: if gc_collect == GC_COLLECT_END: gc.collect(); the
\* generator returns and the consumer sees StopIteration.
CollectEnd ==
    /\ pc = "after"
    /\ gc_calls' = IF GcEndDue(gc_collect) THEN gc_calls + 1 ELSE gc_calls
    /\ pc' = "done"
    /\ UNCHANGED <<params, opened, pos, pk_buffer, pending, results, lookups,
                   yielded, error, fetched, consumed, unread>>

\* One step of a pass that runs the code of function f.
NextOf(f) ==
    \/ DemandAs(f)
    \/ Close
    \/ IterateHandleAs(f)
    \/ ValidateAs(f)
    \/ OpenKeys
    \/ NewBatch
    \/ DrawKeyAs(f)
    \/ KeysExhaustedAs(f)
    \/ DrawFailsAs(f)
    \/ DrawUnsupportedAs(f)
    \/ BatchFull
    \/ LookupRecordsAs(f)
    \/ YieldRecord
    \/ RecordsExhausted
    \/ LookupFails
    \/ YieldHandleAs(f)
    \/ CollectBatch
    \/ CollectEnd

Next ==
    \/ Demand
    \/ Close
    \/ IterateHandle
    \/ Validate
    \/ OpenKeys
    \/ NewBatch
    \/ DrawKey
    \/ KeysExhausted
    \/ DrawFails
    \/ DrawUnsupported
    \/ BatchFull
    \/ LookupRecords
    \/ YieldRecord
    \/ RecordsExhausted
    \/ LookupFails
    \/ YieldHandle
    \/ CollectBatch
    \/ CollectEnd


Spec == Init /\ [][Next]_vars

\* A pass over a source that raises no error and whose key iterator has the
\* method the function calls, with a consumer that never closes the
\* generator and keeps demanding: whatever can run does run.
LiveInit == Init /\ HasMethod(DrawMethod(fn))

LiveNext ==
    \/ Demand
    \/ IterateHandle
    \/ Validate
    \/ OpenKeys
    \/ NewBatch
    \/ DrawKey
    \/ KeysExhausted
    \/ BatchFull
    \/ LookupRecords
    \/ YieldRecord
    \/ RecordsExhausted
    \/ YieldHandle
    \/ CollectBatch
    \/ CollectEnd

LiveSpec == LiveInit /\ [][LiveNext]_vars /\ WF_vars(LiveNext)

\* ---- vocabulary of the properties -------------------------------------------
CeilDiv(n, b) == (n + b - 1) \div b

Min(a, b) == IF a < b THEN a ELSE b

\* The k-th consecutive chunk of b keys of the key sequence.
Chunk(k, b) == SubSeq(keys, (k - 1) * b + 1, Min(k * b, Len(keys)))

BagOfSeq(s) ==
    LET elems == {s[i] : i \in DOMAIN s}
    IN  [x \in elems |-> Cardinality({i \in DOMAIN s : s[i] = x})]

OneRowPerKey == \A k \in DOMAIN rows : rows[k] = 1

\* The data source has raised an error during this pass.
SourceErrors == {"KeysError", "AttributeError", "LookupError"}

SourceFailed == pending = "raise" \/ error \in SourceErrors

\* An integer batch size of at least 1.
ValidBatch == IsInt /\ batchsize >= 1

NonEmptyLookups == {i \in DOMAIN lookups : lookups[i] # <<>>}

\* C1: in RECORDS mode with batch size >= 1, a pass that runs to its end has
\* yielded every row of the source exactly once: the multiset of yielded
\* records equals the multiset of rows of the table.
C1_FullPassYieldsEveryRecordOnce ==
    (Mode = "RECORDS" /\ ValidBatch /\ pc = "done")
        => BagOfSeq(yielded) = BagOfSeq(Table(Len(keys)))

C1_Witness ==
    /\ Mode = "RECORDS" /\ pc = "done"
    /\ batchsize = 2 /\ Len(keys) = 3 /\ keys = Descending(3)
    /\ Len(lookups) = 2 /\ Len(yielded) >= 3

\* C2: with batch size b >= 1 and n keys, a pass that runs to its end has
\* handed exactly ceil(n/b) key buffers to the lookup (and, in BATCHES mode,
\* yielded as many handles), the k-th of them being the k-th chunk of b keys,
\* so that an empty source gives no batch at all.
C2_ExactlyCeilBatches ==
    (ValidBatch /\ pc = "done")
        => /\ Len(lookups) = CeilDiv(Len(keys), batchsize)
           /\ \A k \in DOMAIN lookups :
                 Len(lookups[k]) = Len(Chunk(k, batchsize))
           /\ Mode = "BATCHES" => Len(yielded) = CeilDiv(Len(keys), batchsize)

\* C3: as long as the data source raises no error, every key buffer passed
\* to the lookup is non-empty, and in BATCHES mode every handle yielded is
\* the handle of a non-empty buffer.
C3_NoLookupForEmptyBuffer ==
    (ValidBatch /\ ~SourceFailed)
        => /\ \A i \in DOMAIN lookups : lookups[i] # <<>>
           /\ Mode = "BATCHES" =>
                 \A i \in DOMAIN yielded : yielded[i].pk__in # <<>>

\* C4: with a batch size <= 0 the call itself raises nothing, the first
\* demand raises ValueError, and nothing else has happened by then: the key
\* iterator is not acquired, no key drawn, no lookup made, nothing yielded,
\* the hook not invoked.
C4_InvalidBatchSizeRaisesFirst ==
    (IsInt /\ batchsize <= 0)
        => /\ pc \in {"created", "start", "raised", "closed"}
           /\ pc \in {"created", "start", "closed"} => error = "None"
           /\ pc = "raised" => error = "ValueError"
           /\ ~opened /\ pos = 0 /\ pk_buffer = <<>>
           /\ lookups = <<>> /\ yielded = <<>> /\ fetched = 0
           /\ gc_calls = 0

C4_Witness ==
    /\ batchsize = 0 /\ pc = "raised" /\ error = "ValueError"
    /\ Len(keys) = 2 /\ gc_collect = GC_COLLECT_END

\* C5: with the PER_BATCH policy and batch size b >= 1, a pass that runs to
\* its end has invoked the hook once per non-empty key buffer, that is
\* ceil(n/b) times for n keys, whatever number of rows the lookups returned,
\* and not at all for an empty source.
C5_PerBatchHookOncePerNonEmptyBuffer ==
    (gc_collect = GC_COLLECT_BATCH /\ ValidBatch /\ pc = "done")
        => /\ gc_calls = Cardinality(NonEmptyLookups)
           /\ gc_calls = CeilDiv(Len(keys), batchsize)
           /\ keys = <<>> => gc_calls = 0

C5_Witness ==
    /\ gc_collect = GC_COLLECT_BATCH /\ pc = "done"
    /\ batchsize = 2 /\ Len(keys) = 4 /\ gc_calls = 2
    /\ rows[1] = 0 /\ rows[2] = 1
    /\ Mode = "BATCHES"

\* C6: in RECORDS mode with the PER_BATCH policy, batch size b >= 1, one row
\* per key and a key sequence that is enumerated without error: while the consumer holds its i-th record the hook has been
\* invoked floor((i-1)/b) times, and when the pass has ended after n records
\* it has been invoked ceil(n/b) times.
C6_HookAfterBatchConsumed ==
    (Mode = "RECORDS" /\ gc_collect = GC_COLLECT_BATCH /\ ValidBatch
        /\ OneRowPerKey /\ ~SourceFailed)
        => /\ pc = "suspended" => gc_calls = (Len(yielded) - 1) \div batchsize
           /\ pc = "done" => /\ Len(yielded) = Len(keys)
                             /\ gc_calls = CeilDiv(Len(yielded), batchsize)

C6_Witness ==
    /\ Mode = "RECORDS" /\ gc_collect = GC_COLLECT_BATCH /\ OneRowPerKey
    /\ batchsize = 2 /\ Len(keys) = 4
    /\ pc = "suspended" /\ Len(yielded) = 3 /\ gc_calls = 1

\* C7: with the AT_END policy and batch size >= 1 the hook is invoked exactly
\* once, by the step that ends the pass: it has not been invoked in any state
\* before the end, and has been invoked once when the pass has ended, for any
\* number of batches.
C7_AtEndHookOnceAtEnd ==
    (gc_collect = GC_COLLECT_END /\ ValidBatch)
        => /\ pc # "done" => gc_calls = 0
           /\ pc = "done" => gc_calls = 1

C7_Witness ==
    /\ gc_collect = GC_COLLECT_END /\ pc = "done" /\ gc_calls = 1
    /\ Cardinality(NonEmptyLookups) >= 2

\* C8: with a policy that is neither GC_COLLECT_BATCH nor GC_COLLECT_END the
\* hook is never invoked, however the pass ends.
C8_NonePolicyNeverCollects ==
    gc_collect \notin {GC_COLLECT_BATCH, GC_COLLECT_END} => gc_calls = 0

C8_Witness ==
    /\ gc_collect \notin {GC_COLLECT_BATCH, GC_COLLECT_END}
    /\ pc = "done" /\ Cardinality(NonEmptyLookups) >= 2 /\ Len(yielded) >= 2

\* C9: in BATCHES mode the generator draws no record itself: every yielded
\* element is the handle of the buffer its lookup was made for, the handle
\* last yielded is that of the current buffer, and the records drawn from
\* the source are exactly those the consumer drew by iterating handles.
C9_BatchesModeNeverIterates ==
    Mode = "BATCHES"
        => /\ fetched = consumed
           /\ results = <<>>
           /\ Len(yielded) <= Len(lookups)
           /\ \A i \in DOMAIN yielded : yielded[i] = Handle(lookups[i])
           /\ pc = "suspended" => yielded[Len(yielded)] = Handle(pk_buffer)

C9_Witness ==
    /\ Mode = "BATCHES" /\ pc = "suspended"
    /\ Len(yielded) = 2 /\ unread /\ consumed = 0
    /\ Len(Filter(pk_buffer)) >= 2

\* C10: in RECORDS mode with batch size b >= 1, one row per key and a key
\* sequence that is enumerated without error, while the
\* consumer holds its i-th record the lookup has been invoked ceil(i/b)
\* times and the key set of the latest lookup is the ceil(i/b)-th chunk of
\* the key sequence, in key-sequence order.
C10_LookupsOnDemand ==
    (Mode = "RECORDS" /\ ValidBatch /\ OneRowPerKey /\ ~SourceFailed
        /\ pc = "suspended")
        => /\ Len(lookups) = CeilDiv(Len(yielded), batchsize)
           /\ lookups[Len(lookups)] = Chunk(Len(lookups), batchsize)

C10_Witness ==
    /\ Mode = "RECORDS" /\ OneRowPerKey /\ pc = "suspended"
    /\ batchsize = 2 /\ keys = Descending(4)
    /\ Len(yielded) = 3 /\ Len(lookups) = 2

\* The rows of the first m lookups, each in the order its lookup returns them.
RECURSIVE LookedUp(_)
LookedUp(m) == IF m = 0 THEN <<>> ELSE LookedUp(m - 1) \o Filter(lookups[m])

\* C11: in RECORDS mode the records are yielded batch by batch and, within a
\* batch, in the order the lookup returns them: what has been yielded is a
\* prefix of the lookups' results put end to end.  Hence, when the lookup
\* order is the key order and every key has one row, the i-th record
\* yielded is the record of the i-th key.
C11_YieldedInLookupOrder ==
    (Mode = "RECORDS" /\ ValidBatch)
        => /\ Len(yielded) <= Len(LookedUp(Len(lookups)))
           /\ yielded = SubSeq(LookedUp(Len(lookups)), 1, Len(yielded))
           /\ (keys = Ascending(Len(keys)) /\ OneRowPerKey)
                 => \A i \in DOMAIN yielded : yielded[i] = <<keys[i], 1>>

C11_Witness ==
    /\ Mode = "RECORDS" /\ OneRowPerKey /\ keys = Ascending(4)
    /\ batchsize = 2 /\ fraction = 0
    /\ pc = "suspended" /\ Len(yielded) = 4 /\ Len(lookups) = 2

\* C12: queryset_iterator rejects a batch size that is not an integer, also
\* one that is not below 1: the first demand raises the invalid-argument
\* error and no key has been drawn, no lookup made and nothing yielded.
C12_NonIntegralRejected ==
    (fn = "queryset_iterator" /\ ~IsInt)
        => /\ pc \in {"created", "start", "raised", "closed"}
           /\ pc = "raised" => error \in {"TypeError", "ValueError"}
           /\ pos = 0 /\ lookups = <<>> /\ yielded = <<>>

\* C13 as claimed: with the PER_BATCH policy in RECORDS mode, when the
\* consumer has closed the sequence while suspended inside a batch, the hook
\* has been invoked for that batch too, i.e. once for every non-empty buffer
\* whose lookup was started.
C13_HookRunsOnAbandon ==
    (Mode = "RECORDS" /\ gc_collect = GC_COLLECT_BATCH /\ ValidBatch
        /\ pc = "closed" /\ yielded # <<>>)
        => gc_calls = Cardinality(NonEmptyLookups)

\* C13 as amended: with the PER_BATCH policy in RECORDS mode, when the
\* consumer has closed the sequence while suspended inside a batch, the hook
\* has not been invoked for that batch: it has been invoked once for each
\* earlier non-empty buffer and not for the one the consumer abandoned.
C13_HookSkippedOnAbandon ==
    (Mode = "RECORDS" /\ gc_collect = GC_COLLECT_BATCH /\ ValidBatch
        /\ pc = "closed" /\ yielded # <<>>)
        => gc_calls = Cardinality(NonEmptyLookups) - 1

C13_Witness ==
    /\ Mode = "RECORDS" /\ gc_collect = GC_COLLECT_BATCH /\ OneRowPerKey
    /\ batchsize = 2 /\ fraction = 0 /\ Len(keys) = 4
    /\ pc = "closed" /\ Len(yielded) = 3 /\ gc_calls = 1 /\ error = "None"

\* C14: an error raised by the key enumeration while a buffer is being
\* filled reaches the consumer by the very next step, unchanged: while it is
\* in flight no lookup is made, nothing is yielded and the hook is not
\* invoked.  (Steps in which the source raises a second error are left
\* aside.)
C14_KeyErrorSurfacesAtOnce ==
    [][(error = "KeysError" /\ pending = "raise" /\ error' # "LookupError")
          => /\ pc' = "raised" /\ error' = error
             /\ lookups' = lookups /\ yielded' = yielded
             /\ gc_calls' = gc_calls]_vars

\* C15: when a lookup or, in RECORDS mode, the iteration of its records
\* raises, the step that raises ends the pass with that error and changes
\* neither what was yielded, nor the keys drawn, nor the hook count; and no
\* step is taken afterwards: no key drawn, no lookup, no yield, no retry.
C15_LookupErrorAborts ==
    [][/\ error # "LookupError"
       /\ error' = "LookupError"
             => /\ pc' = "raised"
                /\ yielded' = yielded /\ pos' = pos /\ pk_buffer' = pk_buffer
                /\ gc_calls' = gc_calls]_vars

C15_Witness ==
    /\ error = "LookupError" /\ pc = "raised" /\ Mode = "RECORDS"
    /\ Len(yielded) = 1 /\ Len(lookups) = 2 /\ pos < Len(keys)

RECURSIVE Flatten(_)
Flatten(ss) == IF ss = <<>> THEN <<>> ELSE Head(ss) \o Flatten(Tail(ss))

\* C16: with an integer batch size >= 1, in both functions, the buffers
\* passed to the lookup over a full pass partition the key sequence: put end
\* to end in the order they were produced they are the key sequence, and no
\* two of them share a key.
C16_BuffersPartitionKeys ==
    (ValidBatch /\ pc = "done")
        => /\ Flatten(lookups) = keys
           /\ \A i, j \in DOMAIN lookups :
                 i # j => InBuffer(lookups[i]) \cap InBuffer(lookups[j]) = {}
           /\ \A p \in DOMAIN keys :
                 Cardinality({i \in DOMAIN lookups :
                                 keys[p] \in InBuffer(lookups[i])}) = 1

C16_Witness ==
    /\ fn = "queryset_iterator_qs" /\ pc = "done"
    /\ batchsize = 2 /\ fraction = 0 /\ keys = Descending(3)
    /\ Len(lookups) = 2

\* Batches started: lookups made, and the batch being filled or about to be
\* looked up.
Started == Len(lookups) + (IF pc \in {"fill", "finally"} THEN 1 ELSE 0)

\* C17: with an integer batch size b >= 1 the buffer never holds more than b
\* keys; at most b keys have been drawn per batch started; a batch is filled
\* starting from an empty buffer (while it is filled, the keys drawn are
\* those of the earlier, full batches and those in the buffer); and while
\* the consumer is suspended inside a batch no key of a later batch has been
\* drawn: the keys drawn are exactly those of the buffers looked up so far.
C17_OneBatchOfKeysAtATime ==
    ValidBatch
        => /\ Len(pk_buffer) <= batchsize
           /\ pos <= batchsize * Started
           /\ pc = "fill" => pos = batchsize * Len(lookups) + Len(pk_buffer)
           /\ pc = "suspended"
                 => /\ pk_buffer = lookups[Len(lookups)]
                    /\ Flatten(lookups) = SubSeq(keys, 1, pos)

C17_Witness ==
    /\ Mode = "RECORDS" /\ pc = "suspended" /\ error = "None"
    /\ batchsize = 1 /\ fraction = 0 /\ Len(keys) = 4
    /\ Len(lookups) = 2 /\ pos = 2

Other(f) == IF f = "queryset_iterator" THEN "queryset_iterator_qs"
                                       ELSE "queryset_iterator"

\* C19: with an integer batch size, queryset_iterator called with
\* iterator_return=False and queryset_iterator_qs behave alike: run side by
\* side from the same state, every step one of them takes (key draw, lookup,
\* yield, hook invocation, error or exhaustion) is a step of the other with
\* the same result.
C19_SameStepsAsOtherFunction ==
    [][(iterator_return = FALSE /\ IsInt) => NextOf(Other(fn))]_vars

====
